---- MODULE Spec2Model ----
(***************************************************************************)
(* Model of the study-guide document viewer.                               *)
(*                                                                         *)
(*  - App (App.tsx): document switching with asynchronous loads.           *)
(*  - documentLoader.parseMarkdownSections: the Section Extractor.         *)
(*  - MarkdownRenderer.parseMarkdown: the Markdown Line Renderer, one      *)
(*    action per branch of the loop body.                                  *)
(*  - SearchPanel: the matcher over the lines of the rendered document.    *)
(*  - NotesPanel: the note list, mounted while the panel is open.          *)
(*                                                                         *)
(* Strings are sequences of one-character strings, so that slicing,        *)
(* trimming and the regular expressions of the source are computed         *)
(* character by character.                                                 *)
(***************************************************************************)
EXTENDS Integers, Sequences, FiniteSets, TLC

VARIABLES
    \* ---- App.tsx state ----
    currentContentId,     \* useState('full-stack-guide')
    currentDocument,      \* useState<Document | null>(null)
    loading,              \* useState(true)
    contentDropdownOpen,  \* useState(false)
    activeSection,        \* useState('')
    inflight,             \* pending loadMarkdownContent promises, in request order
    lastRequested,        \* history: content id of the latest load the user asked for
    bookmarks,            \* useState<string[]>([])
    toggledOdd,           \* history: ids toggleBookmark was called with an odd number of times
    \* ---- parseMarkdownSections / parseMarkdown on one text ----
    text,                 \* the raw markdown, a flat character sequence
    phase,                \* "raw" | "render" | "done" | "app" | "notes"
    sections,             \* result of parseMarkdownSections(text)
    lines,                \* parseMarkdown: text.split('\n')
    i,                    \* parseMarkdown: loop index (0-based)
    elements,             \* parseMarkdown: emitted blocks
    currentCodeBlock,     \* parseMarkdown: pending code buffer
    inCodeBlock,          \* parseMarkdown: state flag
    codeBlockLanguage,    \* parseMarkdown: language of the open fence
    codeBlockId,          \* parseMarkdown: running code block counter
    \* ---- SearchPanel.tsx ----
    searchOpen,           \* App: useState(false); the panel is mounted while true
    searchQuery,          \* useState('')
    searchResults,        \* useMemo(..., [searchQuery, documentData.content])
    searchThrew,          \* the useMemo callback threw during render
    \* ---- NotesPanel.tsx ----
    notesOpen,            \* App: useState(false); the panel is mounted while true
    notes,                \* useState<Note[]>([...])
    newNote,              \* useState({ title: '', content: '', section: '', tags: '' })
    showNewNoteForm,      \* useState(false)
    now,                  \* the clock read by Date.now()
    submitted             \* history: ids of the notes added and not deleted since

appVars  == <<currentContentId, currentDocument, loading, contentDropdownOpen,
              activeSection, inflight, lastRequested, bookmarks, toggledOdd>>
textVars == <<text, phase, sections, lines, i, elements, currentCodeBlock,
              inCodeBlock, codeBlockLanguage, codeBlockId>>
searchVars == <<searchOpen, searchQuery, searchResults, searchThrew>>
notesVars == <<notesOpen, notes, newNote, showNewNoteForm, now, submitted>>
panelVars == <<searchVars, notesVars>>
vars     == <<appVars, textVars, panelVars>>

(***************************************************************************)
(* Bounds                                                                  *)
(***************************************************************************)
MaxInflight == 3
MaxTokens == 3
MaxLines == 3
MaxNotes == 3
MaxClock == 1

(***************************************************************************)
(* JavaScript string primitives on character sequences                     *)
(***************************************************************************)
UpperChars == <<"A","B","C","D","E","F","G","H","I","J","K","L","M",
                "N","O","P","Q","R","S","T","U","V","W","X","Y","Z">>
LowerChars == <<"a","b","c","d","e","f","g","h","i","j","k","l","m",
                "n","o","p","q","r","s","t","u","v","w","x","y","z">>
DigitChars == <<"0","1","2","3","4","5","6","7","8","9">>

Range(f) == {f[x] : x \in DOMAIN f}

\* \s of a JavaScript regular expression, and the characters String.trim removes
\* (restricted to the white space that can occur inside a line).
IsSpace(c) == c \in {" ", "\t"}

\* [a-z0-9]
IsLowerAlnum(c) == c \in Range(LowerChars) \cup Range(DigitChars)

ToLowerChar(c) ==
    IF c \in Range(UpperChars)
    THEN LowerChars[CHOOSE k \in 1..26 : UpperChars[k] = c]
    ELSE c

\* U+0130, the capital I with a dot above, and U+0307, the combining dot
\* above: the one character of the texts whose lower case is two characters.
CapitalIDot == "U+0130"
CombiningDot == "U+0307"

\* String.prototype.toLowerCase
ToLowerCase(s) ==
    IF \A p \in 1..Len(s) : s[p] # CapitalIDot
    THEN [p \in 1..Len(s) |-> ToLowerChar(s[p])]
    ELSE LET Before(p) == Cardinality({r \in 1..(p - 1) : s[r] = CapitalIDot})
             At(p) == p + Before(p)
         IN  [j \in 1..(Len(s) + Before(Len(s) + 1)) |->
                 IF \E p \in 1..Len(s) : At(p) = j
                 THEN LET p == CHOOSE r \in 1..Len(s) : At(r) = j
                      IN  IF s[p] = CapitalIDot THEN "i" ELSE ToLowerChar(s[p])
                 ELSE CombiningDot]

\* String.prototype.startsWith / endsWith
StartsWith(s, pre) == Len(s) >= Len(pre) /\ SubSeq(s, 1, Len(pre)) = pre
EndsWith(s, suf) == Len(s) >= Len(suf) /\ SubSeq(s, Len(s) - Len(suf) + 1, Len(s)) = suf

\* s.slice(n) for n >= 0
SliceFrom(s, n) == SubSeq(s, n + 1, Len(s))

\* s.slice(1, -1)
SliceInner(s) == SubSeq(s, 2, Len(s) - 1)

\* Number of leading characters of s that satisfy P.
LeadingRun(s, P(_)) ==
    LET stops == {p \in 1..Len(s) : ~P(s[p])}
    IN  IF stops = {} THEN Len(s)
        ELSE (CHOOSE p \in stops : \A q \in stops : p <= q) - 1

\* Number of trailing characters of s that satisfy P.
TrailingRun(s, P(_)) ==
    LET stops == {p \in 1..Len(s) : ~P(s[p])}
    IN  IF stops = {} THEN Len(s)
        ELSE Len(s) - (CHOOSE p \in stops : \A q \in stops : p >= q)

\* String.prototype.trim
Trim(s) ==
    IF LeadingRun(s, IsSpace) = Len(s) THEN <<>>
    ELSE SubSeq(s, LeadingRun(s, IsSpace) + 1, Len(s) - TrailingRun(s, IsSpace))

\* s.replace(/X+/g, '-') where X is the class of characters satisfying P:
\* every maximal run of such characters becomes one hyphen.
ReplaceRuns(s, P(_)) ==
    LET F[p \in 0..Len(s)] ==
            IF p = 0 THEN <<>>
            ELSE IF ~P(s[p]) THEN Append(F[p - 1], s[p])
            ELSE IF p = 1 \/ ~P(s[p - 1]) THEN Append(F[p - 1], "-")
            ELSE F[p - 1]
    IN  F[Len(s)]

\* text.split('\n'): the pieces between consecutive line feeds.
SplitLines(s) ==
    LET breaks == {p \in 1..Len(s) : s[p] = "\n"}
        Break(k) == CHOOSE p \in breaks : Cardinality({r \in breaks : r < p}) = k - 1
        First(k) == IF k = 1 THEN 1 ELSE Break(k - 1) + 1
        Last(k) == IF k = Cardinality(breaks) + 1 THEN Len(s) ELSE Break(k) - 1
    IN  [k \in 1..(Cardinality(breaks) + 1) |-> SubSeq(s, First(k), Last(k))]

Min(S) == CHOOSE x \in S : \A y \in S : x <= y

(***************************************************************************)
(* documentLoader.ts: parseMarkdownSections                                *)
(***************************************************************************)
IsHash(c) == c = "#"

\* Positions q of s where "{#" starts.
BracePositions(s) == {q \in 1..(Len(s) - 1) : s[q] = "{" /\ s[q + 1] = "#"}

\* t.replace(/\s*\{#.*\}$/, ''): the leftmost match starts at the white space
\* in front of the first "{#" that is followed, at the end of t, by "}".
StripIdSuffix(t) ==
    LET cands == {q \in BracePositions(t) : q + 2 <= Len(t)}
    IN  IF t # <<>> /\ t[Len(t)] = "}" /\ cands # {}
        THEN LET q == Min(cands)
                 before == SubSeq(t, 1, q - 1)
             IN  SubSeq(before, 1, Len(before) - TrailingRun(before, IsSpace))
        ELSE t

\* trimmedLine.replace(/^#+\s*/, '')
StripHeadingPrefix(t) ==
    LET rest == SliceFrom(t, LeadingRun(t, IsHash))
    IN  SliceFrom(rest, LeadingRun(rest, IsSpace))

\* trimmedLine.match(/\{#([^}]+)\}/): the positions where the pattern matches.
IdMatchPositions(t) ==
    {q \in BracePositions(t) :
        /\ q + 2 <= Len(t)
        /\ t[q + 2] # "}"
        /\ \E r \in (q + 3)..Len(t) : t[r] = "}"}

\* idMatch[1] of the leftmost match.
IdMatchGroup(t) ==
    LET q == Min(IdMatchPositions(t))
        r == Min({r \in (q + 3)..Len(t) : t[r] = "}"})
    IN  SubSeq(t, q + 2, r - 1)

NotLowerAlnum(c) == ~IsLowerAlnum(c)

\* A slug whose pattern lacks the '+': every character outside a-z0-9
\* becomes a hyphen of its own.
SectionSlugPerChar(title) ==
    [p \in 1..Len(title) |->
        IF NotLowerAlnum(ToLowerChar(title[p])) THEN "-" ELSE ToLowerChar(title[p])]

\* title.toLowerCase().replace(/[^a-z0-9]+/g, '-')
SectionSlug(title) == ReplaceRuns(ToLowerCase(title), NotLowerAlnum)

\* A heading test that forgets to trim the line.
IsHeadingLineUntrimmed(line) == StartsWith(line, <<"#">>)

\* trimmedLine.startsWith('#')
IsHeadingLine(line) == StartsWith(Trim(line), <<"#">>)

\* The Section pushed for a heading line.
SectionOfLine(line) ==
    LET trimmedLine == Trim(line)
        level == LeadingRun(trimmedLine, IsHash)
        title == StripIdSuffix(StripHeadingPrefix(trimmedLine))
        id == IF IdMatchPositions(trimmedLine) # {}
              THEN IdMatchGroup(trimmedLine)
              ELSE SectionSlug(title)
    IN  [id |-> id, title |-> title, level |-> level]

\* The loop of parseMarkdownSections over the first n lines.
RECURSIVE SectionsOfLines(_, _)
SectionsOfLines(ls, n) ==
    IF n = 0 THEN <<>>
    ELSE IF IsHeadingLine(ls[n])
         THEN Append(SectionsOfLines(ls, n - 1), SectionOfLine(ls[n]))
         ELSE SectionsOfLines(ls, n - 1)

parseMarkdownSections(content) ==
    SectionsOfLines(SplitLines(content), Len(SplitLines(content)))

(***************************************************************************)
(* MarkdownRenderer.tsx: parseMarkdown                                     *)
(***************************************************************************)
\* The backtick cannot be written in a string of this language; the
\* character is named instead.
BackTick == "BACKTICK"
Fence == <<BackTick, BackTick, BackTick>>
H1Prefix == <<"#", " ">>
H2Prefix == <<"#", "#", " ">>
H3Prefix == <<"#", "#", "#", " ">>
DefPrefix == <<"-", " ", "*", "*">>
BulletPrefix == <<"-", " ">>
Rule == <<"-", "-", "-">>
Star == <<"*">>

\* tail matches \s+\{#(.+?)\}$
IdSuffixMatches(tail) ==
    LET w == LeadingRun(tail, IsSpace)
    IN  /\ w >= 1
        /\ Len(tail) >= w + 4
        /\ tail[w + 1] = "{"
        /\ tail[w + 2] = "#"
        /\ tail[Len(tail)] = "}"

\* Lengths k of group 1 for which /^## (.+?)(?:\s+\{#(.+?)\})?$/ matches with
\* the optional group taking part.
H2SuffixSplits(line) ==
    LET rest == SliceFrom(line, 3)
    IN  {k \in 1..Len(rest) : IdSuffixMatches(SliceFrom(rest, k))}

\* match?.[1] || line.slice(3)
H2Title(line) ==
    LET rest == SliceFrom(line, 3)
    IN  IF H2SuffixSplits(line) # {}
        THEN SubSeq(rest, 1, Min(H2SuffixSplits(line)))
        ELSE rest

\* title.toLowerCase().replace(/\s+/g, '-')
RenderSlug(title) == ReplaceRuns(ToLowerCase(title), IsSpace)

\* match?.[2] || title.toLowerCase().replace(/\s+/g, '-')
H2Id(line) ==
    LET rest == SliceFrom(line, 3)
    IN  IF H2SuffixSplits(line) # {}
        THEN LET tail == SliceFrom(rest, Min(H2SuffixSplits(line)))
                 w == LeadingRun(tail, IsSpace)
             IN  SubSeq(tail, w + 3, Len(tail) - 1)
        ELSE RenderSlug(H2Title(line))

\* Lengths k of the term for which /^- \*\*(.+?)\*\*:\s*(.+)$/ matches.
DefSplits(line) ==
    LET rest == SliceFrom(line, 4)
    IN  {k \in 1..Len(rest) :
            /\ Len(rest) >= k + 4
            /\ SubSeq(rest, k + 1, k + 3) = <<"*", "*", ":">>}

DefMatches(line) == StartsWith(line, DefPrefix) /\ DefSplits(line) # {}

DefTerm(line) == SubSeq(SliceFrom(line, 4), 1, Min(DefSplits(line)))

\* Group 2: \s* gives back one character when nothing else is left for (.+).
DefDefinition(line) ==
    LET after == SliceFrom(SliceFrom(line, 4), Min(DefSplits(line)) + 3)
        w == LeadingRun(after, IsSpace)
    IN  IF w = Len(after) THEN SliceFrom(after, w - 1) ELSE SliceFrom(after, w)

Element(key, kind, id, body, extra) ==
    [key |-> key, kind |-> kind, id |-> id, text |-> body, extra |-> extra]

Line == lines[i + 1]

InLoop == phase = "render" /\ i < Len(lines)

\* loadMarkdownContent: the sections of the document are extracted.
LoadDocument ==
    /\ phase = "raw"
    /\ sections' = parseMarkdownSections(text)
    /\ phase' = "loaded"
    /\ UNCHANGED <<appVars, panelVars, text, lines, i, elements, currentCodeBlock,
                   inCodeBlock, codeBlockLanguage, codeBlockId>>

\* parseMarkdown(content) up to the loop.
RenderStart ==
    /\ phase = "loaded"
    /\ lines' = SplitLines(text)
    /\ elements' = <<>>
    /\ currentCodeBlock' = <<>>
    /\ inCodeBlock' = FALSE
    /\ codeBlockLanguage' = <<>>
    /\ codeBlockId' = 0
    /\ i' = 0
    /\ phase' = "render"
    /\ UNCHANGED <<appVars, panelVars, text, sections>>

\* A loop iteration that emits the element e (or nothing when emit is FALSE)
\* and leaves the code-block state alone.
Emit(emit, e) ==
    /\ elements' = IF emit THEN Append(elements, e) ELSE elements
    /\ i' = i + 1
    /\ UNCHANGED <<appVars, panelVars, text, phase, sections, lines, currentCodeBlock,
                   inCodeBlock, codeBlockLanguage, codeBlockId>>

FenceClose ==
    /\ InLoop
    /\ StartsWith(Line, Fence)
    /\ inCodeBlock
    /\ elements' = Append(elements,
           Element(codeBlockId, "code", <<>>, currentCodeBlock, codeBlockLanguage))
    /\ codeBlockId' = codeBlockId + 1
    /\ currentCodeBlock' = <<>>
    /\ inCodeBlock' = FALSE
    /\ codeBlockLanguage' = <<>>
    /\ i' = i + 1
    /\ UNCHANGED <<appVars, panelVars, text, phase, sections, lines>>

FenceOpen ==
    /\ InLoop
    /\ StartsWith(Line, Fence)
    /\ ~inCodeBlock
    /\ inCodeBlock' = TRUE
    /\ codeBlockLanguage' = SliceFrom(Line, 3)
    /\ i' = i + 1
    /\ UNCHANGED <<appVars, panelVars, text, phase, sections, lines, elements,
                   currentCodeBlock, codeBlockId>>

\* The line reaches the markdown rules.
Normal == InLoop /\ ~StartsWith(Line, Fence) /\ ~inCodeBlock

\* A buffered line that loses its newline.
CodeLineWithoutNewline ==
    /\ InLoop
    /\ ~StartsWith(Line, Fence)
    /\ inCodeBlock
    /\ currentCodeBlock' = currentCodeBlock \o Line
    /\ i' = i + 1
    /\ UNCHANGED <<appVars, panelVars, text, phase, sections, lines, elements,
                   inCodeBlock, codeBlockLanguage, codeBlockId>>

\* if (inCodeBlock) { currentCodeBlock += line + '\n'; continue; }
CodeLine ==
    /\ InLoop
    /\ ~StartsWith(Line, Fence)
    /\ inCodeBlock
    /\ currentCodeBlock' = currentCodeBlock \o Line \o <<"\n">>
    /\ i' = i + 1
    /\ UNCHANGED <<appVars, panelVars, text, phase, sections, lines, elements,
                   inCodeBlock, codeBlockLanguage, codeBlockId>>

Heading1 ==
    /\ Normal
    /\ StartsWith(Line, H1Prefix)
    /\ Emit(TRUE, Element(i, "h1", <<>>, SliceFrom(Line, 2), <<>>))

Heading2 ==
    /\ Normal
    /\ ~StartsWith(Line, H1Prefix)
    /\ StartsWith(Line, H2Prefix)
    /\ Emit(TRUE, Element(i, "h2", H2Id(Line), H2Title(Line), <<>>))

Heading3 ==
    /\ Normal
    /\ ~StartsWith(Line, H1Prefix)
    /\ ~StartsWith(Line, H2Prefix)
    /\ StartsWith(Line, H3Prefix)
    /\ Emit(TRUE, Element(i, "h3", <<>>, SliceFrom(Line, 4), <<>>))

NoHeading ==
    /\ Normal
    /\ ~StartsWith(Line, H1Prefix)
    /\ ~StartsWith(Line, H2Prefix)
    /\ ~StartsWith(Line, H3Prefix)

\* else if (line.startsWith('- **')) { const match = ...; if (match) {...} }
DefinitionItem ==
    /\ NoHeading
    /\ StartsWith(Line, DefPrefix)
    /\ Emit(DefMatches(Line),
            IF DefMatches(Line)
            THEN Element(i, "definition", <<>>, DefDefinition(Line), DefTerm(Line))
            ELSE Element(i, "none", <<>>, <<>>, <<>>))

BulletItem ==
    /\ NoHeading
    /\ ~StartsWith(Line, DefPrefix)
    /\ StartsWith(Line, BulletPrefix)
    /\ Emit(TRUE, Element(i, "li", <<>>, SliceFrom(Line, 2), <<>>))

NoList == NoHeading /\ ~StartsWith(Line, DefPrefix) /\ ~StartsWith(Line, BulletPrefix)

HorizontalRule ==
    /\ NoList
    /\ Trim(Line) = Rule
    /\ Emit(TRUE, Element(i, "hr", <<>>, <<>>, <<>>))

Caption ==
    /\ NoList
    /\ Trim(Line) # Rule
    /\ StartsWith(Line, Star) /\ EndsWith(Line, Star)
    /\ Emit(TRUE, Element(i, "caption", <<>>, SliceInner(Line), <<>>))

Paragraph ==
    /\ NoList
    /\ Trim(Line) # Rule
    /\ ~(StartsWith(Line, Star) /\ EndsWith(Line, Star))
    /\ Trim(Line) # <<>>
    /\ Emit(TRUE, Element(i, "p", <<>>, Line, <<>>))

BlankLine ==
    /\ NoList
    /\ Trim(Line) # Rule
    /\ ~(StartsWith(Line, Star) /\ EndsWith(Line, Star))
    /\ Trim(Line) = <<>>
    /\ Emit(FALSE, Element(i, "none", <<>>, <<>>, <<>>))

\* return elements
RenderDone ==
    /\ phase = "render"
    /\ i = Len(lines)
    /\ phase' = "done"
    /\ UNCHANGED <<appVars, panelVars, text, sections, lines, i, elements, currentCodeBlock,
                   inCodeBlock, codeBlockLanguage, codeBlockId>>

(***************************************************************************)
(* App.tsx                                                                 *)
(***************************************************************************)
\* A bounded part of the catalogue offered by the content dropdown: two
\* entries of the first catalogue and one of the longer catalogue, for which
\* the content map below has no key.
ContentIds == {"full-stack-guide", "nodejs", "array-dsa"}

\* Keys of contentMap (readmes/index.ts).
ContentMapKeys == {"api-development", "database", "fastapi", "full-stack-guide",
                   "gcp", "nodejs", "python", "react"}

NoDocument == [title |-> "null", content |-> "null", sections |-> <<>>]

\* The markdown of the catalogue entries, cut down to their headings.
ContentText(contentId) ==
    IF contentId = "full-stack-guide"
    THEN <<"#", " ", "G", "\n", "#", "#", " ", "A">>
    ELSE <<"#", "#", " ", "A">>

SectionIds == {"overview"}

\* loadMarkdownContent(contentId): the Document it resolves to.  The content
\* of a catalogue entry is identified by its key in contentMap.
\* A fallback that extracts the sections of its own text.
LoadMarkdownContentWithSections(contentId) ==
    IF contentId \in ContentMapKeys
    THEN [title |-> "Loaded", content |-> contentId,
          sections |-> parseMarkdownSections(ContentText(contentId))]
    ELSE [title |-> "Document Not Found", content |-> contentId,
          sections |-> parseMarkdownSections(
              <<"#", " ", "D", "o", "c", "u", "m", "e", "n", "t", " ",
                "N", "o", "t", " ", "F", "o", "u", "n", "d">>)]

LoadMarkdownContent(contentId) ==
    IF contentId \in ContentMapKeys
    THEN [title |-> "Loaded", content |-> contentId,
          sections |-> parseMarkdownSections(ContentText(contentId))]
    ELSE [title |-> "Document Not Found", content |-> contentId,
          sections |-> <<>>]

Remove(s, k) == SubSeq(s, 1, k - 1) \o SubSeq(s, k + 1, Len(s))

\* useEffect(..., [currentContentId]): loadInitialDocument up to its await.
EffectRequest(contentId) == [kind |-> "effect", id |-> contentId]

\* The dropdown button.
ToggleContentDropdown ==
    /\ phase = "app"
    /\ contentDropdownOpen' = ~contentDropdownOpen
    /\ UNCHANGED <<currentContentId, currentDocument, loading, activeSection,
                   inflight, lastRequested, bookmarks,
                   toggledOdd, textVars, panelVars>>

\* handleClickOutside, registered while the dropdown is open.
HandleClickOutside ==
    /\ phase = "app"
    /\ contentDropdownOpen
    /\ contentDropdownOpen' = FALSE
    /\ UNCHANGED <<currentContentId, currentDocument, loading, activeSection,
                   inflight, lastRequested, bookmarks,
                   toggledOdd, textVars, panelVars>>

\* onSectionClick={setActiveSection}
SetActiveSection(sectionId) ==
    /\ phase = "app"
    /\ currentDocument # NoDocument
    /\ activeSection' = sectionId
    /\ UNCHANGED <<currentContentId, currentDocument, loading, contentDropdownOpen,
                   inflight, lastRequested, bookmarks,
                   toggledOdd, textVars, panelVars>>

\* handleContentChange(contentId) for the id of the current document: early return.
\* The click reaches the document listener too, which closes the dropdown.
HandleContentChangeSame(contentId) ==
    /\ phase = "app"
    /\ contentDropdownOpen
    /\ contentId = currentContentId
    /\ contentDropdownOpen' = FALSE
    /\ UNCHANGED <<currentContentId, currentDocument, loading, activeSection,
                   inflight, lastRequested, bookmarks,
                   toggledOdd, textVars, panelVars>>

\* handleContentChange(contentId) up to its await.
HandleContentChange(contentId) ==
    /\ phase = "app"
    /\ contentDropdownOpen
    /\ contentId # currentContentId
    /\ Len(inflight) < MaxInflight
    /\ loading' = TRUE
    /\ contentDropdownOpen' = FALSE
    /\ activeSection' = ""
    /\ inflight' = Append(inflight, [kind |-> "switch", id |-> contentId])
    /\ lastRequested' = contentId
    /\ UNCHANGED <<currentContentId, currentDocument, bookmarks,
                   toggledOdd, textVars, panelVars>>

\* The continuation of handleContentChange after its await, followed by the
\* effect on [currentContentId] when the id changed.
SwitchLoaded(k) ==
    /\ phase = "app"
    /\ k \in 1..Len(inflight)
    /\ inflight[k].kind = "switch"
    /\ currentDocument' = LoadMarkdownContent(inflight[k].id)
    /\ currentContentId' = inflight[k].id
    /\ IF inflight[k].id # currentContentId
       THEN /\ loading' = TRUE
            /\ inflight' = Append(Remove(inflight, k), EffectRequest(inflight[k].id))
       ELSE /\ loading' = FALSE
            /\ inflight' = Remove(inflight, k)
    /\ UNCHANGED <<contentDropdownOpen, activeSection, lastRequested, bookmarks,
                   toggledOdd, textVars, panelVars>>

\* A continuation that leaves the loading flag as it is.
EffectLoadedStillLoading(k) ==
    /\ phase = "app"
    /\ k \in 1..Len(inflight)
    /\ inflight[k].kind = "effect"
    /\ currentDocument' = LoadMarkdownContent(inflight[k].id)
    /\ inflight' = Remove(inflight, k)
    /\ UNCHANGED <<currentContentId, loading, contentDropdownOpen, activeSection,
                   lastRequested, bookmarks, toggledOdd, textVars, panelVars>>

\* The continuation of loadInitialDocument after its await.
EffectLoaded(k) ==
    /\ phase = "app"
    /\ k \in 1..Len(inflight)
    /\ inflight[k].kind = "effect"
    /\ currentDocument' = LoadMarkdownContent(inflight[k].id)
    /\ loading' = FALSE
    /\ inflight' = Remove(inflight, k)
    /\ UNCHANGED <<currentContentId, contentDropdownOpen, activeSection,
                   lastRequested, bookmarks,
                   toggledOdd, textVars, panelVars>>

\* The ids of the level-2 headings parseMarkdown renders with a bookmark
\* button, for a text without code fences.
RenderedHeadingIds(content) ==
    {H2Id(SplitLines(content)[n]) :
        n \in {m \in 1..Len(SplitLines(content)) :
                  /\ ~StartsWith(SplitLines(content)[m], H1Prefix)
                  /\ StartsWith(SplitLines(content)[m], H2Prefix)}}

\* The bookmark list of the table of contents: bookmarks.map, with null for
\* an id that sections.find does not find.
DisplayedBookmarksUnfiltered == bookmarks

DisplayedBookmarks ==
    SelectSeq(bookmarks,
              LAMBDA bookmarkId :
                  \E k \in DOMAIN currentDocument.sections :
                      currentDocument.sections[k].id = bookmarkId)

\* An array that grows at every toggle.
ToggledAppending(prev, sectionId) == Append(prev, sectionId)

\* prev.includes(sectionId) ? prev.filter(id => id !== sectionId)
\*                           : [...prev, sectionId]
Toggled(prev, sectionId) ==
    IF sectionId \in Range(prev)
    THEN SelectSeq(prev, LAMBDA id : id # sectionId)
    ELSE Append(prev, sectionId)

toggleBookmark(sectionId) ==
    /\ bookmarks' = Toggled(bookmarks, sectionId)
    /\ toggledOdd' = (toggledOdd \ {sectionId}) \cup ({sectionId} \ toggledOdd)
    /\ UNCHANGED <<currentContentId, currentDocument, loading, contentDropdownOpen,
                   activeSection, inflight, lastRequested, textVars, panelVars>>

\* The bookmark button of an entry of the table of contents, which lists
\* every section of the current document.
ToggleBookmarkInContents ==
    /\ phase = "app"
    /\ currentDocument # NoDocument
    /\ \E k \in DOMAIN currentDocument.sections :
           toggleBookmark(currentDocument.sections[k].id)

\* The document viewer is shown.
ViewerShown == phase = "app" /\ ~loading /\ currentDocument # NoDocument

\* The bookmark button of a tile of the quick navigation, which has a tile
\* for every section of the current document.
ToggleBookmarkInNavigation ==
    /\ ViewerShown
    /\ \E k \in DOMAIN currentDocument.sections :
           toggleBookmark(currentDocument.sections[k].id)

\* The bookmark button of a rendered level-2 heading.
ToggleBookmarkAtHeading ==
    /\ ViewerShown
    /\ currentDocument.content \in ContentMapKeys
    /\ \E id \in RenderedHeadingIds(ContentText(currentDocument.content)) :
           toggleBookmark(id)

\* The value of Date.now() when the application starts, cut down to four
\* digits.
Epoch == 1000

\* { title: '', content: '', section: '', tags: '' }
EmptyDraft == [title |-> <<>>, content |-> <<>>, section |-> <<>>, tags |-> <<>>]

\* The panels as they are before the user opens them.
PanelsIdle ==
    /\ searchOpen = FALSE /\ searchQuery = <<>> /\ searchResults = <<>>
    /\ searchThrew = FALSE
    /\ notesOpen = FALSE /\ notes = <<>> /\ newNote = EmptyDraft
    /\ showNewNoteForm = FALSE /\ now = Epoch /\ submitted = {}

TextIdle ==
    /\ text = <<>> /\ sections = <<>> /\ lines = <<>> /\ i = 0
    /\ elements = <<>> /\ currentCodeBlock = <<>> /\ inCodeBlock = FALSE
    /\ codeBlockLanguage = <<>> /\ codeBlockId = 0

\* The state after mount: the initial effect has issued its load.
Init ==
    /\ phase = "app"
    /\ currentContentId = "full-stack-guide"
    /\ currentDocument = NoDocument
    /\ loading = TRUE
    /\ contentDropdownOpen = FALSE
    /\ activeSection = ""
    /\ inflight = <<EffectRequest("full-stack-guide")>>
    /\ lastRequested = "full-stack-guide"
    /\ bookmarks = <<>> /\ toggledOdd = {}
    /\ TextIdle
    /\ PanelsIdle

Next ==
    \/ ToggleContentDropdown
    \/ HandleClickOutside
    \/ \E s \in SectionIds : SetActiveSection(s)
    \/ \E c \in ContentIds : HandleContentChangeSame(c)
    \/ \E c \in ContentIds : HandleContentChange(c)
    \/ \E k \in 1..MaxInflight : SwitchLoaded(k)
    \/ \E k \in 1..MaxInflight : EffectLoaded(k)
    \/ ToggleBookmarkInContents
    \/ ToggleBookmarkInNavigation
    \/ ToggleBookmarkAtHeading

Spec == Init /\ [][Next]_vars

\* What a step of SwitchLoaded or EffectLoaded does to the pending loads.
LoadCompletes ==
    /\ phase = "app"
    /\ \E k \in 1..Len(inflight) :
           inflight' =
               IF inflight[k].kind = "switch" /\ inflight[k].id # currentContentId
               THEN Append(Remove(inflight, k), EffectRequest(inflight[k].id))
               ELSE Remove(inflight, k)

\* Every pending promise of loadMarkdownContent settles, and its
\* continuation runs.
SpecFair == Spec /\ WF_inflight(LoadCompletes)

(***************************************************************************)
(* SearchPanel.tsx: searchResults                                          *)
(***************************************************************************)
\* results.slice(0, 20)
MaxResults == 20

\* The 30 characters kept on each side of the occurrence.
SnippetRadius == 30

Max(S) == CHOOSE x \in S : \A y \in S : x >= y

\* s.indexOf(q): the 0-based positions at which q occurs in s.
Occurrences(s, q) ==
    {a \in 0..(Len(s) - Len(q)) : SubSeq(s, a + 1, a + Len(q)) = q}

\* s.includes(q)
Includes(s, q) == Occurrences(s, q) # {}

\* s.indexOf(q) when q occurs in s
IndexOf(s, q) == Min(Occurrences(s, q))

\* s.slice(a, b) for 0 <= a <= b <= s.length
Slice(s, a, b) == SubSeq(s, a + 1, b)

\* let currentSection = { id: 'intro', title: 'Introduction' }
IntroSection == [id |-> <<"i", "n", "t", "r", "o">>,
                 title |-> <<"I", "n", "t", "r", "o", "d", "u", "c", "t", "i", "o", "n">>]

\* line.match(/^## (.+?)(?:\s+\{#(.+?)\})?$/) is not null.
HeaderMatch(line) == StartsWith(line, H2Prefix) /\ Len(line) > Len(H2Prefix)

\* { title: headerMatch[1],
\*   id: headerMatch[2] || headerMatch[1].toLowerCase().replace(/\s+/g, '-') }
HeaderSection(line) == [id |-> H2Id(line), title |-> H2Title(line)]

\* new RegExp("(" + searchQuery + ")", 'gi') throws a SyntaxError.  Of the
\* characters the queries are made of, '(' opens a group that nothing
\* closes; every other one leaves the pattern well formed.
RegExpThrows(q) == \E p \in 1..Len(q) : q[p] = "("

\* One character of the pattern against one character of the snippet, with
\* the flag i: '.' stands for any character, the others for themselves.
PatternCharMatches(pc, c) == pc = "." \/ ToLowerChar(pc) = ToLowerChar(c)

\* The pattern matches at the 1-based position p of s.
PatternMatchesAt(s, q, p) ==
    /\ p + Len(q) - 1 <= Len(s)
    /\ \A k \in 1..Len(q) : PatternCharMatches(q[k], s[p + k - 1])

MarkOpen == <<"<", "m", "a", "r", "k", ">">>
MarkClose == <<"<", "/", "m", "a", "r", "k", ">">>
Ellipsis == <<".", ".", ".">>

\* snippet.replace(regex, '<mark>$1</mark>') for the empty pattern, which
\* matches the empty string in front of every character and at the end.
HighlightEmpty(s) ==
    LET mark == MarkOpen \o MarkClose
        width == Len(mark) + 1
    IN  [j \in 1..(Len(s) * width + Len(mark)) |->
            IF ((j - 1) % width) < Len(mark)
            THEN mark[((j - 1) % width) + 1]
            ELSE s[((j - 1) \div width) + 1]]

\* snippet.replace(regex, '<mark>$1</mark>') from position p on: the matches
\* are taken from left to right and do not overlap.
RECURSIVE HighlightFrom(_, _, _)
HighlightFrom(s, q, p) ==
    IF q = <<>> THEN HighlightEmpty(SubSeq(s, p, Len(s)))
    ELSE LET starts == {m \in p..Len(s) : PatternMatchesAt(s, q, m)}
         IN  IF starts = {} THEN SubSeq(s, p, Len(s))
             ELSE LET m == Min(starts)
                  IN  SubSeq(s, p, m - 1)
                          \o MarkOpen \o SubSeq(s, m, m + Len(q) - 1) \o MarkClose
                          \o HighlightFrom(s, q, m + Len(q))

\* const start = Math.max(0, queryIndex - 30)
WindowStart(line, q) ==
    Max({0, IndexOf(ToLowerCase(line), ToLowerCase(q)) - SnippetRadius})

\* const end = Math.min(line.length, queryIndex + searchQuery.length + 30)
WindowEnd(line, q) ==
    Min({Len(line), IndexOf(ToLowerCase(line), ToLowerCase(q)) + Len(q) + SnippetRadius})

\* The window around the first occurrence, with its ellipses.
SnippetWindow(line, q) ==
    LET start == WindowStart(line, q)
        end == WindowEnd(line, q)
    IN  (IF start > 0 THEN Ellipsis ELSE <<>>)
            \o Slice(line, start, end)
            \o (IF end < Len(line) THEN Ellipsis ELSE <<>>)

Snippet(line, q) == HighlightFrom(SnippetWindow(line, q), q, 1)

\* The test of a line that is not a header.
LineMatches(line, q) == Includes(ToLowerCase(line), ToLowerCase(q))

\* A result whose line is the index of forEach, not index + 1.
ResultOfZeroBased(section, line, q, n) ==
    [sectionId |-> section.id, sectionTitle |-> section.title,
     snippet |-> Snippet(line, q), line |-> n - 1]

\* results.push({ sectionId, sectionTitle, snippet, line: index + 1 }) for
\* the n-th line.
ResultOf(section, line, q, n) ==
    [sectionId |-> section.id, sectionTitle |-> section.title,
     snippet |-> Snippet(line, q), line |-> n]

\* lines.forEach(...): the cursor, the results and whether the callback
\* threw, after the first n lines.  Nothing runs after a throw.
ScanLines(ls, q) ==
    LET F[n \in 0..Len(ls)] ==
            IF n = 0
            THEN [currentSection |-> IntroSection, results |-> <<>>, threw |-> FALSE]
            ELSE LET line == ls[n]
                     isHeader == HeaderMatch(line)
                     matches == LineMatches(line, q)
                     prev == F[n - 1]
                 IN  IF ~isHeader /\ ~matches THEN prev
                     ELSE IF prev.threw THEN prev
                     ELSE IF isHeader
                          THEN [prev EXCEPT !.currentSection = HeaderSection(line)]
                     ELSE IF RegExpThrows(q) THEN [prev EXCEPT !.threw = TRUE]
                     ELSE [prev EXCEPT !.results =
                              Append(@, ResultOf(prev.currentSection, line, q, n))]
    IN  F[Len(ls)]

\* A matcher that forgets results.slice(0, 20).
SearchResultsUncapped(content, q) ==
    IF Trim(q) = <<>> THEN [results |-> <<>>, threw |-> FALSE]
    ELSE LET scan == ScanLines(SplitLines(content), q)
         IN  [results |-> scan.results, threw |-> scan.threw]

\* A matcher without the test of line 28: the empty query matches every line.
SearchResultsOfAnyQuery(content, q) ==
    LET scan == ScanLines(SplitLines(content), q)
    IN  [results |-> SubSeq(scan.results, 1, Min({MaxResults, Len(scan.results)})),
         threw |-> scan.threw]

\* The useMemo callback: what it returns, or that it threw.
SearchResults(content, q) ==
    IF Trim(q) = <<>> THEN [results |-> <<>>, threw |-> FALSE]
    ELSE LET scan == ScanLines(SplitLines(content), q)
         IN  [results |-> SubSeq(scan.results, 1, Min({MaxResults, Len(scan.results)})),
              threw |-> scan.threw]

\* The ids document.getElementById can find: the rendered level-2 headings.
ElementIds == {elements[n].id : n \in {m \in DOMAIN elements : elements[m].kind = "h2"}}

\* The panel is mounted: {searchOpen && currentDocument && <SearchPanel/>}.
SearchMounted == phase = "done" /\ searchOpen /\ ~searchThrew

\* onClick={() => setSearchOpen(!searchOpen)}.  Opening mounts the panel
\* with the query '' and renders it; closing unmounts it: its query is gone.
ToggleSearch ==
    /\ phase = "done"
    /\ ~searchThrew
    /\ searchOpen' = ~searchOpen
    /\ searchQuery' = <<>>
    /\ searchResults' = IF searchOpen THEN <<>> ELSE SearchResults(text, <<>>).results
    /\ UNCHANGED <<appVars, textVars, notesVars, searchThrew>>

\* onClose, from the backdrop or the X button.
CloseSearch ==
    /\ SearchMounted
    /\ searchOpen' = FALSE
    /\ searchQuery' = <<>>
    /\ searchResults' = <<>>
    /\ UNCHANGED <<appVars, textVars, notesVars, searchThrew>>

\* onChange={(e) => setSearchQuery(e.target.value)} and the render after it.
\* An exception thrown while rendering takes the whole application down.
SetSearchQuery(q) ==
    /\ SearchMounted
    /\ searchQuery' = q
    /\ searchResults' = SearchResults(text, q).results
    /\ searchThrew' = SearchResults(text, q).threw
    /\ UNCHANGED <<appVars, textVars, notesVars, searchOpen>>

\* scrollToResult(sectionId), from a click on the k-th result.
ScrollToResult(k) ==
    /\ SearchMounted
    /\ k \in 1..Len(searchResults)
    /\ IF searchResults[k].sectionId \in ElementIds
       THEN searchOpen' = FALSE /\ searchQuery' = <<>> /\ searchResults' = <<>>
       ELSE UNCHANGED <<searchOpen, searchQuery, searchResults>>
    /\ UNCHANGED <<appVars, textVars, notesVars, searchThrew>>

(***************************************************************************)
(* Input texts                                                             *)
(***************************************************************************)
Tokens ==
    { <<"A">>, <<" ">>, <<"?">>, <<"-">>, <<"*">>,
      <<"{", "#", "x", "}">>, <<"{", "#">>, <<"}">>, <<"*", "*", ":">> }

RECURSIVE Bodies(_)
Bodies(n) ==
    IF n = 0 THEN {<<>>}
    ELSE Bodies(n - 1) \cup {b \o t : b \in Bodies(n - 1), t \in Tokens}

Prefixes == {<<>>, H1Prefix, H2Prefix, H3Prefix, BulletPrefix, DefPrefix, Fence}

\* Single lines: a prefix followed by up to MaxTokens tokens.
RichLines == {p \o b : p \in Prefixes, b \in Bodies(MaxTokens)}

\* Lines of the multi-line texts.
CoreLines ==
    { Fence \o <<"j", "s">>, Fence, H2Prefix \o <<"A">>, H1Prefix \o <<"A">>,
      <<" ", "#", "A">>, DefPrefix \o <<"A">>, BulletPrefix \o <<"a">>,
      Star, <<"a">>, <<>> }

RECURSIVE JoinLines(_)
JoinLines(ls) ==
    IF Len(ls) = 1 THEN ls[1]
    ELSE JoinLines(SubSeq(ls, 1, Len(ls) - 1)) \o <<"\n">> \o ls[Len(ls)]

LineSeqs == UNION {[1..n -> CoreLines] : n \in 2..MaxLines}

Texts == RichLines \cup {JoinLines(ls) : ls \in LineSeqs}

AppIdle ==
    /\ currentContentId = "full-stack-guide"
    /\ currentDocument = NoDocument
    /\ loading = TRUE
    /\ contentDropdownOpen = FALSE
    /\ activeSection = ""
    /\ inflight = <<>>
    /\ lastRequested = "full-stack-guide"
    /\ bookmarks = <<>> /\ toggledOdd = {}

InitText ==
    /\ phase = "raw"
    /\ text \in Texts
    /\ sections = <<>> /\ lines = <<>> /\ i = 0
    /\ elements = <<>> /\ currentCodeBlock = <<>> /\ inCodeBlock = FALSE
    /\ codeBlockLanguage = <<>> /\ codeBlockId = 0
    /\ AppIdle
    /\ PanelsIdle

NextText ==
    \/ LoadDocument
    \/ RenderStart
    \/ FenceClose
    \/ FenceOpen
    \/ CodeLine
    \/ Heading1
    \/ Heading2
    \/ Heading3
    \/ DefinitionItem
    \/ BulletItem
    \/ HorizontalRule
    \/ Caption
    \/ Paragraph
    \/ BlankLine
    \/ RenderDone

SpecText == InitText /\ [][NextText]_vars

(***************************************************************************)
(* Documents and queries of the search                                     *)
(***************************************************************************)
\* Length of the long documents: more matching lines than the cap keeps.
MaxDocLines == 22

SearchLines ==
    { <<"a">>, <<"A", "b">>, <<"b", " ", "b">>, <<"(", "a">>, <<>>,
      H2Prefix \o <<"A">>, H2Prefix \o <<"a", "?">>,
      H2Prefix \o <<"B", " ", "{", "#", "x", "}">> }

\* Every document of up to MaxShortLines of these lines.
MaxShortLines == 2

ShortDocs ==
    {JoinLines(ls) : ls \in UNION {[1..n -> SearchLines] : n \in 1..MaxShortLines}}

\* Documents where a heading comes between, before or after matching lines.
CursorDocs ==
    { JoinLines(<< <<"a">>, H2Prefix \o <<"A">>, <<"a">> >>),
      JoinLines(<< H2Prefix \o <<"A">>, H2Prefix \o <<"a", "?">>, <<"a">> >>),
      JoinLines(<< H2Prefix \o <<"B", " ", "{", "#", "x", "}">>, <<"a">>,
                   H2Prefix \o <<"A">>, <<"A", "b">> >>),
      JoinLines(<< <<"a">>, <<>>, <<"A", "b">> >>) }

\* The lines a long document repeats.
Patterns ==
    { << <<"a">> >>, << <<"(", "a">> >>, << <<"a">>, <<"b", " ", "b">> >>,
      << H2Prefix \o <<"A">>, <<"A", "b">> >>, << <<>>, <<"a">> >> }

Repeat(pat, n) == JoinLines([k \in 1..n |-> pat[((k - 1) % Len(pat)) + 1]])

LongDocs == {Repeat(pat, n) : pat \in Patterns, n \in MaxResults..MaxDocLines}

\* "# Doc\n\n## Intro {#intro}\nHello world\n\n## Next\nBye"
HelloDoc ==
    JoinLines(<< <<"#", " ", "D", "o", "c">>, <<>>,
                 <<"#", "#", " ", "I", "n", "t", "r", "o", " ",
                   "{", "#", "i", "n", "t", "r", "o", "}">>,
                 <<"H", "e", "l", "l", "o", " ", "w", "o", "r", "l", "d">>, <<>>,
                 <<"#", "#", " ", "N", "e", "x", "t">>, <<"B", "y", "e">> >>)

\* A document with a line for every rule of the renderer.
SampleDoc ==
    JoinLines(<< H1Prefix \o <<"A">>, H3Prefix \o <<"a">>,
                 Fence \o <<"j", "s">>, H2Prefix \o <<"B">>, Fence,
                 DefPrefix \o <<"a", "*", "*", ":", " ", "b">>,
                 BulletPrefix \o <<"a">>, Rule, <<"*", "a", "*">>,
                 H2Prefix \o <<"A">>, <<"a">> >>)

\* One-line documents with an "a" that has more, or fewer, characters than
\* the radius of the window on either side.
Fill(c, n) == [k \in 1..n |-> c]

WindowDocs ==
    {Fill("b", m) \o <<"a">> \o Fill("b", n) :
        m \in {SnippetRadius, SnippetRadius + 1},
        n \in (SnippetRadius - 1)..(SnippetRadius + 2)}
    \cup {<<CapitalIDot>> \o Fill("b", SnippetRadius) \o <<"a">>
              \o Fill("b", SnippetRadius + 1)}

\* "a.b"
DotDoc == <<"a", ".", "b">>

SearchDocs ==
    ShortDocs \cup CursorDocs \cup LongDocs \cup WindowDocs
        \cup {HelloDoc, SampleDoc, DotDoc}

Hello == <<"h", "e", "l", "l", "o">>

Queries ==
    { <<>>, <<" ">>, <<"a">>, <<"A">>, <<"a", "b">>, <<"b", " ">>, <<"z">>,
      <<"(">>, <<".">>, <<"#">>, Hello }

InitSearch ==
    /\ phase = "raw"
    /\ text \in SearchDocs
    /\ sections = <<>> /\ lines = <<>> /\ i = 0
    /\ elements = <<>> /\ currentCodeBlock = <<>> /\ inCodeBlock = FALSE
    /\ codeBlockLanguage = <<>> /\ codeBlockId = 0
    /\ AppIdle
    /\ PanelsIdle

NextSearch ==
    \/ NextText
    \/ ToggleSearch
    \/ CloseSearch
    \/ \E q \in Queries : SetSearchQuery(q)
    \/ \E k \in 1..MaxResults : ScrollToResult(k)

SpecSearch == InitSearch /\ [][NextSearch]_vars

(***************************************************************************)
(* NotesPanel.tsx                                                          *)
(***************************************************************************)
\* Number.prototype.toString for a non-negative integer.
RECURSIVE NumberToString(_)
NumberToString(n) ==
    IF n < 10 THEN <<DigitChars[n + 1]>>
    ELSE NumberToString(n \div 10) \o <<DigitChars[(n % 10) + 1]>>

\* s.split(',')
SplitCommas(s) ==
    LET breaks == {p \in 1..Len(s) : s[p] = ","}
        Break(k) == CHOOSE p \in breaks : Cardinality({r \in breaks : r < p}) = k - 1
        First(k) == IF k = 1 THEN 1 ELSE Break(k - 1) + 1
        Last(k) == IF k = Cardinality(breaks) + 1 THEN Len(s) ELSE Break(k) - 1
    IN  [k \in 1..(Cardinality(breaks) + 1) |-> SubSeq(s, First(k), Last(k))]

General == <<"G", "e", "n", "e", "r", "a", "l">>

\* The two notes the panel is mounted with, created at the time t.
InitialNotes(t) ==
    << [id |-> <<"1">>,
        title |-> <<"R", "e", "a", "c", "t", " ", "H", "o", "o", "k", "s",
                    " ", "B", "e", "s", "t", " ", "P", "r", "a", "c", "t",
                    "i", "c", "e", "s">>,
        content |-> <<"R", "e", "m", "e", "m", "b", "e", "r", " ", "t",
                      "o", " ", "u", "s", "e", " ", "u", "s", "e", "C",
                      "a", "l", "l", "b", "a", "c", "k", " ", "f", "o",
                      "r", " ", "e", "x", "p", "e", "n", "s", "i", "v",
                      "e", " ", "c", "o", "m", "p", "u", "t", "a", "t",
                      "i", "o", "n", "s", " ", "a", "n", "d", " ", "u",
                      "s", "e", "M", "e", "m", "o", " ", "f", "o", "r",
                      " ", "d", "e", "r", "i", "v", "e", "d", " ", "s",
                      "t", "a", "t", "e", ".">>,
        section |-> <<"F", "r", "o", "n", "t", "e", "n", "d", " ", "T",
                      "e", "c", "h", "n", "o", "l", "o", "g", "i", "e",
                      "s">>,
        tags |-> << <<"r", "e", "a", "c", "t">>, <<"h", "o", "o", "k", "s">>,
                    <<"p", "e", "r", "f", "o", "r", "m", "a", "n", "c", "e">> >>,
        createdAt |-> t, updatedAt |-> t],
       [id |-> <<"2">>,
        title |-> <<"D", "a", "t", "a", "b", "a", "s", "e", " ", "I", "n",
                    "d", "e", "x", "i", "n", "g", " ", "S", "t", "r", "a",
                    "t", "e", "g", "y">>,
        content |-> <<"C", "r", "e", "a", "t", "e", " ", "c", "o", "m",
                      "p", "o", "s", "i", "t", "e", " ", "i", "n", "d",
                      "e", "x", "e", "s", " ", "f", "o", "r", " ", "q",
                      "u", "e", "r", "i", "e", "s", " ", "t", "h", "a",
                      "t", " ", "f", "i", "l", "t", "e", "r", " ", "o",
                      "n", " ", "m", "u", "l", "t", "i", "p", "l", "e",
                      " ", "c", "o", "l", "u", "m", "n", "s", ".", " ",
                      "M", "o", "n", "i", "t", "o", "r", " ", "q", "u",
                      "e", "r", "y", " ", "p", "e", "r", "f", "o", "r",
                      "m", "a", "n", "c", "e", " ", "r", "e", "g", "u",
                      "l", "a", "r", "l", "y", ".">>,
        section |-> <<"D", "a", "t", "a", "b", "a", "s", "e", " ", "D",
                      "e", "s", "i", "g", "n">>,
        tags |-> << <<"d", "a", "t", "a", "b", "a", "s", "e">>,
                    <<"p", "e", "r", "f", "o", "r", "m", "a", "n", "c", "e">>,
                    <<"s", "q", "l">> >>,
        createdAt |-> t, updatedAt |-> t] >>

\* The pieces between the commas, as they are.
TagsOfUntrimmed(tags) == SplitCommas(tags)

\* newNote.tags.split(',').map(tag => tag.trim()).filter(Boolean)
TagsOf(tags) ==
    SelectSeq([k \in DOMAIN SplitCommas(tags) |-> Trim(SplitCommas(tags)[k])],
              LAMBDA tag : tag # <<>>)

\* The note addNote builds from the draft at the time t.
NoteOf(draft, t) ==
    [id |-> NumberToString(t),
     title |-> draft.title,
     content |-> draft.content,
     section |-> IF draft.section = <<>> THEN General ELSE draft.section,
     tags |-> TagsOf(draft.tags),
     createdAt |-> t, updatedAt |-> t]

\* The panel is mounted: {notesOpen && <NotesPanel/>}.
NotesMounted == phase = "notes" /\ notesOpen

\* Time passes.
Tick ==
    /\ phase = "notes"
    /\ now < Epoch + MaxClock
    /\ now' = now + 1
    /\ UNCHANGED <<appVars, textVars, searchVars, notesOpen, notes, newNote,
                   showNewNoteForm, submitted>>

\* onClick={() => setNotesOpen(!notesOpen)}.  Opening mounts the panel with
\* its initial state; closing unmounts it, and its state is gone.
ToggleNotes ==
    /\ phase = "notes"
    /\ notesOpen' = ~notesOpen
    /\ notes' = IF notesOpen THEN <<>> ELSE InitialNotes(now)
    /\ newNote' = EmptyDraft
    /\ showNewNoteForm' = FALSE
    /\ UNCHANGED <<appVars, textVars, searchVars, now, submitted>>

\* onClose, from the backdrop or the X button.
CloseNotes ==
    /\ NotesMounted
    /\ notesOpen' = FALSE
    /\ notes' = <<>>
    /\ newNote' = EmptyDraft
    /\ showNewNoteForm' = FALSE
    /\ UNCHANGED <<appVars, textVars, searchVars, now, submitted>>

\* onClick={() => setShowNewNoteForm(!showNewNoteForm)}
ToggleNewNoteForm ==
    /\ NotesMounted
    /\ showNewNoteForm' = ~showNewNoteForm
    /\ UNCHANGED <<appVars, textVars, searchVars, notesOpen, notes, newNote,
                   now, submitted>>

\* Cancel: onClick={() => setShowNewNoteForm(false)}
CancelNewNote ==
    /\ NotesMounted
    /\ showNewNoteForm
    /\ showNewNoteForm' = FALSE
    /\ UNCHANGED <<appVars, textVars, searchVars, notesOpen, notes, newNote,
                   now, submitted>>

\* onChange of the three inputs of the form.
SetNewNote(field, value) ==
    /\ NotesMounted
    /\ showNewNoteForm
    /\ newNote' = [newNote EXCEPT ![field] = value]
    /\ UNCHANGED <<appVars, textVars, searchVars, notesOpen, notes,
                   showNewNoteForm, now, submitted>>

\* addNote with a draft it rejects: nothing is set.
AddNoteRejected ==
    /\ NotesMounted
    /\ showNewNoteForm
    /\ ~(Trim(newNote.title) # <<>> /\ Trim(newNote.content) # <<>>)
    /\ UNCHANGED vars

\* addNote with a draft it accepts.
AddNote ==
    /\ NotesMounted
    /\ showNewNoteForm
    /\ Trim(newNote.title) # <<>> /\ Trim(newNote.content) # <<>>
    /\ Len(notes) < MaxNotes
    /\ notes' = <<NoteOf(newNote, now)>> \o notes
    /\ newNote' = EmptyDraft
    /\ showNewNoteForm' = FALSE
    /\ submitted' = submitted \cup {NumberToString(now)}
    /\ UNCHANGED <<appVars, textVars, searchVars, notesOpen, now>>

\* deleteNote(note.id) from the k-th note of the list.
DeleteNote(k) ==
    /\ NotesMounted
    /\ k \in DOMAIN notes
    /\ notes' = SelectSeq(notes, LAMBDA note : note.id # notes[k].id)
    /\ submitted' = submitted \ {notes[k].id}
    /\ UNCHANGED <<appVars, textVars, searchVars, notesOpen, newNote,
                   showNewNoteForm, now>>

\* What the user types into the form.
TitleValues == {<<>>, <<" ">>, <<"t">>}
ContentValues == {<<>>, <<"c">>}
TagsValues == {<<>>, <<"x", ",", " ", ",", " ", "y">>}

InitNotes ==
    /\ phase = "notes"
    /\ text = <<>> /\ sections = <<>> /\ lines = <<>> /\ i = 0
    /\ elements = <<>> /\ currentCodeBlock = <<>> /\ inCodeBlock = FALSE
    /\ codeBlockLanguage = <<>> /\ codeBlockId = 0
    /\ AppIdle
    /\ PanelsIdle

NextNotes ==
    \/ Tick
    \/ ToggleNotes
    \/ CloseNotes
    \/ ToggleNewNoteForm
    \/ CancelNewNote
    \/ \E v \in TitleValues : SetNewNote("title", v)
    \/ \E v \in ContentValues : SetNewNote("content", v)
    \/ \E v \in TagsValues : SetNewNote("tags", v)
    \/ AddNoteRejected
    \/ AddNote
    \/ \E k \in 1..MaxNotes : DeleteNote(k)

SpecNotes == InitNotes /\ [][NextNotes]_vars

\* C1: last request wins -- once no load is in flight, the current document
\* is the document of the most recently requested content id.
LastRequestWins ==
    (phase = "app" /\ inflight = <<>>) =>
        currentDocument = LoadMarkdownContent(lastRequested)

\* The line of the element with key k (the loop index that emitted it).
LineOfKey(k) == lines[k + 1]

\* C2: for every line that starts with "## ", the id and the title of the
\* rendered level-2 heading equal the id and the title of the Section the
\* extractor derives from the same line.
HeadingIdsAgree ==
    \A n \in DOMAIN elements :
        elements[n].kind = "h2" =>
            /\ elements[n].id = SectionOfLine(LineOfKey(elements[n].key)).id
            /\ elements[n].text = SectionOfLine(LineOfKey(elements[n].key)).title

\* [A-Za-z0-9-]: the characters of a custom id.
IsIdChar(c) == IsLowerAlnum(ToLowerChar(c)) \/ c = "-"

\* The positions e at which line reads "## <Title> {#<custom-id>}" with
\* <Title> = line[4..e]: a non-empty title without white space at its ends,
\* one space, and a non-empty custom id.
ExplicitForms(line) ==
    {e \in 4..(Len(line) - 5) :
        /\ StartsWith(line, H2Prefix)
        /\ ~IsSpace(line[4]) /\ ~IsSpace(line[e])
        /\ SubSeq(line, e + 1, e + 3) = <<" ", "{", "#">>
        /\ line[Len(line)] = "}"
        /\ \A q \in (e + 4)..(Len(line) - 1) : IsIdChar(line[q])}

FormTitle(line, e) == SubSeq(line, 4, e)
FormId(line, e) == SubSeq(line, e + 4, Len(line) - 1)

\* C3: a line "## <Title> {#<custom-id>}" yields id = <custom-id> and
\* title = <Title> from the extractor and from the renderer.
ExplicitIdRoundTrip ==
    \A n \in DOMAIN elements :
        elements[n].kind = "h2" =>
            \A e \in ExplicitForms(LineOfKey(elements[n].key)) :
                LET line == LineOfKey(elements[n].key)
                IN  /\ elements[n].id = FormId(line, e)
                    /\ elements[n].text = FormTitle(line, e)
                    /\ SectionOfLine(line).id = FormId(line, e)
                    /\ SectionOfLine(line).title = FormTitle(line, e)

(***************************************************************************)
(* Vocabulary of the properties, stated on the text itself                 *)
(***************************************************************************)
\* line, after its leading white space, begins with '#'.
BeginsWithHash(line) ==
    \E q \in 1..Len(line) :
        line[q] = "#" /\ \A r \in 1..(q - 1) : line[r] \in {" ", "\t"}

\* Number of '#' that follow the leading white space of line.
HashCount(line) ==
    LET q == Min({r \in 1..Len(line) : line[r] = "#"})
        ends == {r \in q..Len(line) : line[r] # "#"}
    IN  IF ends = {} THEN Len(line) - q + 1 ELSE Min(ends) - q

\* Indices of the lines of the text that begin with '#' after trimming.
HashLineIdxs == {p \in 1..Len(SplitLines(text)) : BeginsWithHash(SplitLines(text)[p])}

\* The k-th smallest element of a set of numbers.
Kth(S, k) == CHOOSE x \in S : Cardinality({y \in S : y < x}) = k - 1

Extracted == phase \in {"loaded", "render", "done"}

\* C4: the extractor returns exactly one Section per line whose trimmed
\* content begins with '#', in the order of the lines (a "# " line included,
\* at level 1), and nothing for any other line.
OneSectionPerHashLine ==
    Extracted =>
        /\ Len(sections) = Cardinality(HashLineIdxs)
        /\ \A k \in 1..Len(sections) :
               sections[k].level = HashCount(SplitLines(text)[Kth(HashLineIdxs, k)])

OneSectionPerHashLineWitness ==
    /\ Extracted
    /\ Len(SplitLines(text)) = 3
    /\ Len(sections) = 2
    /\ sections[1].level = 2
    /\ sections[2].level = 1
    /\ \E p \in 1..3 : SplitLines(text)[p] = <<"a">>

\* The slug derivation in the words of the specification: lower-case, then
\* every maximal run of characters other than a-z and 0-9 becomes one hyphen.
RECURSIVE Hyphenate(_, _)
Hyphenate(s, inRun) ==
    IF s = <<>> THEN <<>>
    ELSE IF Head(s) \in Range(LowerChars) \cup Range(DigitChars)
         THEN <<Head(s)>> \o Hyphenate(Tail(s), FALSE)
         ELSE IF inRun THEN Hyphenate(Tail(s), TRUE)
              ELSE <<"-">> \o Hyphenate(Tail(s), TRUE)

SlugOf(title) == Hyphenate(ToLowerCase(title), FALSE)

\* The trimmed heading line t ends with a suffix {#X}, X starting at q + 2.
TrailingIdStarts(t) ==
    {q \in 1..(Len(t) - 3) :
        /\ t[q] = "{" /\ t[q + 1] = "#" /\ t[Len(t)] = "}"
        /\ \A r \in (q + 2)..(Len(t) - 1) : t[r] \notin {"{", "}"}}

\* C5: the id of a Section is the content of the trailing {#id} suffix of its
\* line when there is one, and otherwise the slug of the title; the title is
\* the heading text with that suffix stripped.
SectionIdRule ==
    Extracted =>
        \A k \in 1..Len(sections) :
            LET t == Trim(SplitLines(text)[Kth(HashLineIdxs, k)])
            IN  IF TrailingIdStarts(t) # {}
                THEN LET q == Min(TrailingIdStarts(t))
                     IN  sections[k].id = SubSeq(t, q + 2, Len(t) - 1)
                ELSE sections[k].id = SlugOf(sections[k].title)

\* C6: an id derived as a slug is a fixed point of the slug derivation.
SlugIdempotent ==
    Extracted =>
        \A k \in 1..Len(sections) :
            IdMatchPositions(Trim(SplitLines(text)[Kth(HashLineIdxs, k)])) = {}
                => SlugOf(sections[k].id) = sections[k].id

\* A derived slug in which a run of several characters was collapsed and an
\* upper-case letter was lowered.
SlugIdempotentWitness ==
    /\ Extracted
    /\ Len(sections) = 1
    /\ text = H2Prefix \o <<"A", "?", " ">>
    /\ sections[1].id = <<"a", "-">>

(***************************************************************************)
(* The renderer's pass over the lines                                      *)
(***************************************************************************)
Rendering == phase \in {"render", "done"}

IsFenceLine(p) == StartsWith(lines[p], Fence)

\* Fence lines among the first n lines.
FencesUpTo(n) == {p \in 1..n : IsFenceLine(p)}

\* Line p lies after an opening fence that is not closed before it.
InsideFence(p) == ~IsFenceLine(p) /\ Cardinality(FencesUpTo(p)) % 2 = 1

\* Line p is classified by the markdown rules.
OutsideFence(p) == ~IsFenceLine(p) /\ Cardinality(FencesUpTo(p)) % 2 = 0

\* The lines a+1 .. b-1, each followed by a newline.
RECURSIVE Verbatim(_, _)
Verbatim(a, b) ==
    IF b - a <= 1 THEN <<>>
    ELSE Verbatim(a, b - 1) \o lines[b - 1] \o <<"\n">>

CodeElements == SelectSeq(elements, LAMBDA e : e.kind = "code")

\* C7: two states, normal and in-code-block.  Lines between an opening fence
\* and the next fence are buffered verbatim, each followed by a newline, and
\* are never classified; each closing fence emits exactly one code block with
\* that buffer as body and the text after the opening backticks as language,
\* resets the buffer and the language and returns to the normal state.
CodeFenceMachine ==
    Rendering =>
        LET fs == FencesUpTo(i)
            n == Cardinality(fs)
        IN  /\ inCodeBlock = (n % 2 = 1)
            /\ Len(CodeElements) = n \div 2
            /\ \A m \in 1..(n \div 2) :
                   /\ CodeElements[m].text = Verbatim(Kth(fs, 2 * m - 1), Kth(fs, 2 * m))
                   /\ CodeElements[m].extra = SliceFrom(lines[Kth(fs, 2 * m - 1)], 3)
            /\ IF n % 2 = 1
               THEN /\ currentCodeBlock = Verbatim(Kth(fs, n), i + 1)
                    /\ codeBlockLanguage = SliceFrom(lines[Kth(fs, n)], 3)
               ELSE /\ currentCodeBlock = <<>>
                    /\ codeBlockLanguage = <<>>
            /\ \A k \in DOMAIN elements :
                   elements[k].kind # "code" => OutsideFence(elements[k].key + 1)

\* A closed fence with a language around a line that looks like a heading.
CodeFenceMachineWitness ==
    /\ phase = "done"
    /\ Len(lines) = 3
    /\ lines[1] = Fence \o <<"j", "s">>
    /\ lines[2] = H2Prefix \o <<"A">>
    /\ IsFenceLine(3)
    /\ Len(elements) = 1
    /\ elements[1].kind = "code"
    /\ elements[1].extra = <<"j", "s">>
    /\ elements[1].text = H2Prefix \o <<"A", "\n">>
    /\ ~inCodeBlock

\* s occurs in t as a contiguous piece.
Contains(t, s) == \E a \in 0..(Len(t) - Len(s)) : SubSeq(t, a + 1, a + Len(s)) = s

\* C8: no silent text loss -- once the text is rendered, every non-blank line
\* outside a fence is represented by exactly one block and every line that
\* follows an opening fence is contained verbatim in a code block.
NoTextLoss ==
    phase = "done" =>
        \A p \in 1..Len(lines) :
            /\ (OutsideFence(p) /\ Trim(lines[p]) # <<>>) =>
                   Cardinality({k \in DOMAIN elements :
                       elements[k].kind # "code" /\ elements[k].key = p - 1}) = 1
            /\ InsideFence(p) =>
                   \E k \in DOMAIN elements :
                       /\ elements[k].kind = "code"
                       /\ Contains(elements[k].text, lines[p] \o <<"\n">>)

\* The line reads "- **TERM**: DEFINITION".
IsDefinitionLine(line) ==
    \E a \in 5..Len(line) :
        /\ Len(line) > a + 3
        /\ SubSeq(line, 1, 4) = <<"-", " ", "*", "*">>
        /\ SubSeq(line, a + 1, a + 3) = <<"*", "*", ":">>

\* C9: in the normal state a line that starts with "- " and is not a
\* definition line is rendered as a bullet item with the rest of the line.
BulletFallback ==
    Rendering =>
        \A p \in 1..i :
            (/\ OutsideFence(p)
             /\ Len(lines[p]) >= 2
             /\ SubSeq(lines[p], 1, 2) = <<"-", " ">>
             /\ ~IsDefinitionLine(lines[p]))
            => \E k \in DOMAIN elements :
                   /\ elements[k].key = p - 1
                   /\ elements[k].kind = "li"
                   /\ elements[k].text = SliceFrom(lines[p], 2)

\* C10: a caption is emitted only for a line of length at least 2 that
\* starts and ends with '*'; the line "*" is rendered as a paragraph.
CaptionNeedsTwoStars ==
    Rendering =>
        /\ \A k \in DOMAIN elements :
               elements[k].kind = "caption" =>
                   LET line == LineOfKey(elements[k].key)
                   IN  /\ Len(line) >= 2
                       /\ line[1] = "*" /\ line[Len(line)] = "*"
        /\ \A p \in 1..i :
               (OutsideFence(p) /\ lines[p] = <<"*">>) =>
                   \E k \in DOMAIN elements :
                       elements[k].key = p - 1 /\ elements[k].kind = "p"

(***************************************************************************)
(* Claims about the search                                                 *)
(***************************************************************************)
DocLines == SplitLines(text)

\* The line reads "## " followed by at least one character.
MatchesH2Pattern(line) == Len(line) >= 4 /\ SubSeq(line, 1, 3) = <<"#", "#", " ">>

\* The lower-cased line contains the lower-cased query.
ContainsQuery(line, q) == Contains(ToLowerCase(line), ToLowerCase(q))

\* The numbers of the lines that match the query q.
MatchingLines(q) ==
    {n \in 1..Len(DocLines) :
        ~MatchesH2Pattern(DocLines[n]) /\ ContainsQuery(DocLines[n], q)}

\* The m smallest members of S.
Earliest(S, m) == {x \in S : Cardinality({y \in S : y < x}) < m}

ResultLines == {searchResults[k].line : k \in DOMAIN searchResults}

EmptyQueryNoResults ==
    (SearchMounted /\ searchQuery = <<>>) => searchResults = <<>>

EmptyQueryNoResultsWitness ==
    /\ SearchMounted
    /\ searchQuery = <<>>
    /\ searchResults = <<>>
    /\ \E n \in 1..Len(DocLines) : ~MatchesH2Pattern(DocLines[n])

\* C13: for a non-empty query, the lines that produce a result are, up to
\* the cap of 20, exactly the lines that do not match the level-2-heading
\* pattern and whose lower-cased form contains the lower-cased query.
ResultIffLineContainsQuery ==
    (phase = "done" /\ searchOpen /\ searchQuery # <<>>) =>
        ResultLines = Earliest(MatchingLines(searchQuery), 20)

\* The level-2 heading lines in front of line n.
HeadingsBefore(n) == {m \in 1..(n - 1) : MatchesH2Pattern(DocLines[m])}

\* C14: every result carries the 1-based number of its matched line and the
\* id and the title of the nearest level-2 heading line in front of it, or
\* the section "intro" / "Introduction" when there is none; "hello" in the
\* document of the scenario gives one result, of section "intro", line 4.
ResultCarriesNearestHeading ==
    SearchMounted =>
        /\ \A k \in DOMAIN searchResults :
               LET r == searchResults[k]
               IN  /\ r.line \in MatchingLines(searchQuery)
                   /\ IF HeadingsBefore(r.line) = {}
                      THEN /\ r.sectionId = <<"i", "n", "t", "r", "o">>
                           /\ r.sectionTitle = <<"I", "n", "t", "r", "o", "d", "u",
                                                 "c", "t", "i", "o", "n">>
                      ELSE LET heading == DocLines[Max(HeadingsBefore(r.line))]
                           IN  /\ r.sectionId = HeaderSection(heading).id
                               /\ r.sectionTitle = HeaderSection(heading).title
        /\ (text = HelloDoc /\ searchQuery = Hello) =>
               /\ Len(searchResults) = 1
               /\ searchResults[1].sectionId = <<"i", "n", "t", "r", "o">>
               /\ searchResults[1].line = 4

\* A result under its second heading, and a result in front of every heading.
ResultCarriesNearestHeadingWitness ==
    /\ SearchMounted
    /\ \E k \in DOMAIN searchResults :
           Cardinality(HeadingsBefore(searchResults[k].line)) >= 2
    /\ \E k \in DOMAIN searchResults :
           /\ HeadingsBefore(searchResults[k].line) = {}
           /\ searchResults[k].line >= 2

\* C15: the sectionId of every result is "intro" or the id the Section
\* Extractor derives for the level-2 heading line the result is under,
\* which is the id of a Section of the document.
ResultSectionIsExtractedSection ==
    SearchMounted =>
        \A k \in DOMAIN searchResults :
            LET r == searchResults[k]
            IN  IF HeadingsBefore(r.line) = {}
                THEN r.sectionId = <<"i", "n", "t", "r", "o">>
                ELSE /\ r.sectionId =
                          SectionOfLine(DocLines[Max(HeadingsBefore(r.line))]).id
                     /\ \E n \in DOMAIN sections : sections[n].id = r.sectionId

(***************************************************************************)
(* Claims about loading and bookmarks                                      *)
(***************************************************************************)
\* C16: a load of an id without content resolves to the placeholder, titled
\* "Document Not Found" and without sections, and the app shows it as the
\* current document: no load leaves the app without a document once the
\* loads are over.
PlaceholderForUnknownId ==
    phase = "app" =>
        /\ (currentDocument # NoDocument /\ currentDocument.content \notin ContentMapKeys)
               => /\ currentDocument.title = "Document Not Found"
                  /\ currentDocument.sections = <<>>
        /\ inflight = <<>> => (currentDocument # NoDocument /\ ~loading)

PlaceholderForUnknownIdWitness ==
    /\ phase = "app"
    /\ inflight = <<>>
    /\ currentContentId = "array-dsa"
    /\ currentDocument.content = "array-dsa"
    /\ currentDocument.title = "Document Not Found"
    /\ ~loading

\* C17: a document switch starts one load; the step that completes the
\* switch (the selected id changes) takes that load out of the loads in
\* flight and starts no other.
SwitchStartsOneLoad ==
    [][currentContentId' # currentContentId => Len(inflight') < Len(inflight)]_vars

\* The level-2 section ids of the documents of the catalogue.
LevelTwoIds ==
    UNION {{LoadMarkdownContent(c).sections[k].id :
               k \in {n \in DOMAIN LoadMarkdownContent(c).sections :
                         LoadMarkdownContent(c).sections[n].level = 2}} :
           c \in ContentIds}

\* C18: every bookmarked id is the id of a level-2 section.
BookmarksAreLevelTwo ==
    \A n \in DOMAIN bookmarks : bookmarks[n] \in LevelTwoIds

\* C19: the ids of the Sections extracted from a text are pairwise distinct.
SectionIdsUnique ==
    Extracted =>
        \A j, k \in DOMAIN sections : j # k => sections[j].id # sections[k].id

\* C20: a note that was added and has not been deleted is in the list of
\* the open notes panel, whatever the user did in between, closing and
\* reopening the panel included.
NotePersistsUntilDeleted ==
    notesOpen => \A id \in submitted : \E k \in DOMAIN notes : notes[k].id = id

(***************************************************************************)
(* Claims about the bookmark set                                           *)
(***************************************************************************)
\* C21: after any sequence of toggles an id is in the bookmark list if and
\* only if it was toggled an odd number of times, and no id is in the list
\* twice; a step that changes the list flips the membership of one id and
\* leaves the membership of every other id as it was.
BookmarkToggleIsFlip ==
    /\ [](/\ Range(bookmarks) = toggledOdd
          /\ \A j, k \in DOMAIN bookmarks : j # k => bookmarks[j] # bookmarks[k])
    /\ [][bookmarks' # bookmarks =>
            \E id \in Range(bookmarks) \cup Range(bookmarks') :
                /\ (id \in Range(bookmarks')) = (id \notin Range(bookmarks))
                /\ Range(bookmarks') \ {id} = Range(bookmarks) \ {id}]_vars

\* Two ids were toggled, "a" before "g".
BookmarkToggleIsFlipWitness ==
    /\ bookmarks = <<"a", "g">>
    /\ toggledOdd = {"a", "g"}

Stale(id) ==
    /\ id \in Range(bookmarks)
    /\ \A k \in DOMAIN currentDocument.sections : currentDocument.sections[k].id # id

\* C22: a step that replaces the current document leaves the bookmark list
\* as it is, and the displayed bookmark list is the bookmark list without
\* the ids that no section of the current document has.
StaleBookmarkTolerated ==
    /\ [][currentDocument' # currentDocument => bookmarks' = bookmarks]_vars
    /\ [](/\ \A id \in Range(bookmarks) :
                 Stale(id) <=> id \notin Range(DisplayedBookmarks)
          /\ Range(DisplayedBookmarks) \subseteq Range(bookmarks)
          /\ Len(DisplayedBookmarks) = Cardinality(Range(DisplayedBookmarks)))

\* The level-1 section "g" of the guide is bookmarked and the current
\* document is one that has no such section.
StaleBookmarkToleratedWitness ==
    /\ Stale("g")
    /\ currentDocument.content = "nodejs"
    /\ DisplayedBookmarks = <<"a">>

(***************************************************************************)
(* Claims about the snippet                                                *)
(***************************************************************************)
\* The 0-based index of the first case-insensitive occurrence of q in line.
FirstOccurrence(line, q) ==
    Min({a \in 0..(Len(line) - Len(q)) :
            \A k \in 1..Len(q) : ToLowerChar(line[a + k]) = ToLowerChar(q[k])})

\* The window the snippet is said to be, for the occurrence at index n.
WindowAt(line, q, n) ==
    LET from == IF n - SnippetRadius > 0 THEN n - SnippetRadius ELSE 0
        to == IF n + Len(q) + SnippetRadius < Len(line)
              THEN n + Len(q) + SnippetRadius ELSE Len(line)
    IN  (IF from > 0 THEN Ellipsis ELSE <<>>)
            \o SubSeq(line, from + 1, to)
            \o (IF to < Len(line) THEN Ellipsis ELSE <<>>)

\* C23: the snippet of a result is the highlighted window of its line: the
\* characters from max(0, i - 30) up to min(length, i + query length + 30)
\* around the first case-insensitive occurrence i of the query, with an
\* ellipsis in front exactly when the window starts after the beginning of
\* the line and one behind exactly when it ends before the end of the line.
SnippetIsWindow ==
    SearchMounted =>
        \A k \in DOMAIN searchResults :
            LET line == DocLines[searchResults[k].line]
            IN  searchResults[k].snippet =
                    HighlightFrom(
                        WindowAt(line, searchQuery, FirstOccurrence(line, searchQuery)),
                        searchQuery, 1)

\* q occurs in s at the 1-based position p, letter case apart.
OccursAt(s, q, p) ==
    /\ p + Len(q) - 1 <= Len(s)
    /\ \A k \in 1..Len(q) : ToLowerChar(q[k]) = ToLowerChar(s[p + k - 1])

\* s from position p on, with every occurrence of q wrapped in a marker.
RECURSIVE WrapOccurrences(_, _, _)
WrapOccurrences(s, q, p) ==
    LET starts == {m \in p..Len(s) : OccursAt(s, q, m)}
    IN  IF starts = {} THEN SubSeq(s, p, Len(s))
        ELSE LET m == Min(starts)
             IN  SubSeq(s, p, m - 1)
                     \o MarkOpen \o SubSeq(s, m, m + Len(q) - 1) \o MarkClose
                     \o WrapOccurrences(s, q, m + Len(q))

\* C24: for every query that is not blank the search completes, and the
\* snippet of each result is the window of its line with exactly the
\* case-insensitive literal occurrences of the query wrapped in a highlight
\* marker, the ellipses around the window left as they are.
HighlightIsLiteral ==
    /\ ~searchThrew
    /\ SearchMounted =>
          \A k \in DOMAIN searchResults :
              LET line == DocLines[searchResults[k].line]
                  start == WindowStart(line, searchQuery)
                  end == WindowEnd(line, searchQuery)
              IN  searchResults[k].snippet =
                      (IF start > 0 THEN Ellipsis ELSE <<>>)
                          \o WrapOccurrences(Slice(line, start, end), searchQuery, 1)
                          \o (IF end < Len(line) THEN Ellipsis ELSE <<>>)

(***************************************************************************)
(* Claims about the loading flag                                           *)
(***************************************************************************)
\* C25: the loading flag is true in every state in which a load is in
\* flight.
LoadingWhileInFlight == (phase = "app" /\ inflight # <<>>) => loading

\* C26: whenever no load is in flight, the current document is the document
\* of currentContentId.
DocumentOfCurrentId ==
    (phase = "app" /\ inflight = <<>>) =>
        currentDocument = LoadMarkdownContent(currentContentId)

\* The user selects a document.
Requested == \E c \in ContentIds : HandleContentChange(c)

\* C27: when load completion is fair, the loading flag is false again and
\* again, and once the user selects no further document every load that
\* was started completes and the flag stays false.
LoadsComplete ==
    /\ []<>(~loading)
    /\ <>[][~Requested]_vars => <>[](inflight = <<>> /\ ~loading)

\* The load of an id without content has completed and nothing is pending.
LoadsCompleteWitness ==
    /\ inflight = <<>>
    /\ ~loading
    /\ currentContentId = "array-dsa"
    /\ currentDocument = LoadMarkdownContent("array-dsa")

(***************************************************************************)
(* Claims about code fences and headings                                   *)
(***************************************************************************)
\* Line n is inside a fenced code block: an odd number of fence lines is in
\* front of it, and it is not a fence line itself.
FencedLine(n) ==
    /\ ~StartsWith(DocLines[n], Fence)
    /\ Cardinality({m \in 1..(n - 1) : StartsWith(DocLines[m], Fence)}) % 2 = 1

\* The level-2 heading lines in front of line n that are not inside a fence.
RenderedHeadingsBefore(n) == {m \in HeadingsBefore(n) : ~FencedLine(m)}

\* C28: no scanner takes a line inside a fenced code block for a heading:
\* the extractor has one Section for each line outside the fences that
\* begins with '#' and none for a line inside a fence, and a search result
\* carries the section of the nearest level-2 heading line in front of it
\* that is outside the fences, or "intro" when there is none.
NoHeadingInsideFence ==
    /\ Extracted =>
           Len(sections) = Cardinality({n \in HashLineIdxs : ~FencedLine(n)})
    /\ SearchMounted =>
           \A k \in DOMAIN searchResults :
               LET n == searchResults[k].line
               IN  searchResults[k].sectionId =
                       IF RenderedHeadingsBefore(n) = {} THEN IntroSection.id
                       ELSE HeaderSection(DocLines[Max(RenderedHeadingsBefore(n))]).id

(***************************************************************************)
(* Claims about the notes                                                  *)
(***************************************************************************)
Blank(s) == \A p \in 1..Len(s) : IsSpace(s[p])

\* s without its commas and white space.
Squeezed(s) == SelectSeq(s, LAMBDA c : c # "," /\ ~IsSpace(c))

RECURSIVE Concat(_)
Concat(ss) == IF ss = <<>> THEN <<>> ELSE ss[1] \o Concat(Tail(ss))

\* The comma-separated pieces of s that are not blank: one for each
\* position that starts such a piece.
PieceStarts(s) ==
    {p \in 1..Len(s) :
        /\ s[p] # "," /\ ~IsSpace(s[p])
        /\ \A r \in 1..(p - 1) :
               (\A m \in r..(p - 1) : s[m] # ",") => IsSpace(s[r])}

\* tags are the comma-separated pieces of s, trimmed, the empty ones dropped.
IsTagsOf(tags, s) ==
    /\ Len(tags) = Cardinality(PieceStarts(s))
    /\ \A k \in DOMAIN tags :
           /\ tags[k] # <<>>
           /\ ~IsSpace(tags[k][1]) /\ ~IsSpace(tags[k][Len(tags[k])])
           /\ \A p \in DOMAIN tags[k] : tags[k][p] # ","
    /\ Squeezed(Concat(tags)) = Squeezed(s)

\* C29: a step from a draft whose title or content is blank adds no note;
\* a step that adds a note starts from a draft with a title and a content,
\* puts one note with the draft's title and content, the section "General"
\* for a draft without section and the trimmed, non-empty comma-separated
\* tags in front of the notes there were, clears the draft and hides the
\* form.
AddNoteValidates ==
    [][notesOpen /\ notesOpen' =>
          /\ Blank(newNote.title) \/ Blank(newNote.content) =>
                 /\ Len(notes') <= Len(notes)
                 /\ \A k \in DOMAIN notes' : \E j \in DOMAIN notes : notes[j] = notes'[k]
          /\ Len(notes') > Len(notes) =>
                 /\ notes' = <<notes'[1]>> \o notes
                 /\ notes'[1].title = newNote.title
                 /\ notes'[1].content = newNote.content
                 /\ notes'[1].section =
                        IF newNote.section = <<>> THEN General ELSE newNote.section
                 /\ IsTagsOf(notes'[1].tags, newNote.tags)
                 /\ newNote' = EmptyDraft
                 /\ ~showNewNoteForm']_vars

\* A note with two tags, made from a draft with an empty tag between them,
\* is in front of the two notes the panel starts with.
AddNoteValidatesWitness ==
    /\ notesOpen
    /\ Len(notes) = 3
    /\ notes[1].tags = << <<"x">>, <<"y">> >>
    /\ notes[1].section = General
    /\ notes[2].id = <<"1">>
    /\ newNote = EmptyDraft
    /\ ~showNewNoteForm

\* C30: the ids of the notes of the list are pairwise distinct, so that
\* deleteNote, which removes every note with the id it is given, removes one.
NoteIdsDistinct ==
    \A j, k \in DOMAIN notes : j # k => notes[j].id # notes[k].id

====
